---- MODULE Spec2Model ----
(***************************************************************************)
(* Franchise Fit Finder: the "Find My Matches" handler of                  *)
(* franchise_web_app.py (focus scoring, capital / time / industry /        *)
(* customer filters, final sort, head), the same handler of                *)
(* franchise_web_app_debug.py (no focus stage, a fallback block), and the  *)
(* money() formatting helper.                                              *)
(*                                                                         *)
(* Text is modelled as a sequence of one-character strings, so that        *)
(* lower(), strip(), split(","), "in" and the regular expressions are      *)
(* computed character by character as the code computes them.  A blank     *)
(* spreadsheet cell is NaN, as pandas.read_excel delivers it.              *)
(***************************************************************************)
EXTENDS Integers, Sequences, FiniteSets, TLC

VARIABLES
    df,                 \* the catalog: sequence of rows, in file order
    columns,            \* optional columns the catalog has ("b2b", "b2c")
    biz_map,            \* focus label -> list of mapped industry substrings
    biz_focus,          \* form: selected focus labels
    liquid_capital,     \* form: capital bracket
    finance,            \* form: willing to finance
    hands_on_time,      \* form: time tier
    work_setting,       \* form (debug app only): daily work setting
    industry_interests, \* form: selected industry tags
    customer_type,      \* form: customer type
    app,                \* which script runs: "main" or "debug"
    pc,                 \* position of the handler
    stages,             \* the stages the handler has executed, in order
    df_f,               \* the progressively filtered table
    focus_rows,         \* the table as it left the focus stage
    top_n,              \* the rows shown
    status,             \* the outcome shown to the user
    val,                \* money(): the raw value being formatted
    shown               \* money(): the text produced (or the exception raised)

vars == <<df, columns, biz_map, biz_focus, liquid_capital, finance,
          hands_on_time, work_setting, industry_interests, customer_type,
          app, pc, stages, df_f, focus_rows, top_n, status, val, shown>>

formVars == <<biz_focus, liquid_capital, finance, hands_on_time,
              work_setting, industry_interests, customer_type>>

dataVars == <<df, columns, biz_map, app>>

moneyVars == <<val, shown>>

----------------------------------------------------------------------------
(* Text primitives *)

NaN == <<"NaN">>

isna(x) == x = NaN

\* str(x): a blank cell prints as "nan"
str(x) == IF isna(x) THEN <<"n","a","n">> ELSE x

UpperChars == <<"A","B","C","D","E","F","G","H","I","J","K","L","M",
                "N","O","P","Q","R","S","T","U","V","W","X","Y","Z">>

LowerChars == <<"a","b","c","d","e","f","g","h","i","j","k","l","m",
                "n","o","p","q","r","s","t","u","v","w","x","y","z">>

lowerChar(c) ==
    IF \E i \in DOMAIN UpperChars : UpperChars[i] = c
    THEN LowerChars[CHOOSE i \in DOMAIN UpperChars : UpperChars[i] = c]
    ELSE c

lower(s) == [i \in DOMAIN s |-> lowerChar(s[i])]

\* "NNBSP" stands for U+202F, "ENDASH" for U+2013, "EMDASH" for U+2014
isSpace(c) == c \in {" ", "\t", "\n", "NNBSP"}

isDigit(c) == c \in {"0","1","2","3","4","5","6","7","8","9"}

RECURSIVE lstrip(_)
lstrip(s) == IF s # <<>> /\ isSpace(Head(s)) THEN lstrip(Tail(s)) ELSE s

RECURSIVE rstrip(_)
rstrip(s) ==
    IF s # <<>> /\ isSpace(s[Len(s)]) THEN rstrip(SubSeq(s, 1, Len(s) - 1)) ELSE s

strip(s) == rstrip(lstrip(s))

\* sub in s
contains(s, sub) ==
    \E i \in 1..(Len(s) - Len(sub) + 1) : SubSeq(s, i, i + Len(sub) - 1) = sub

\* s.split(sep) for a one-character separator
RECURSIVE split(_, _)
split(s, sep) ==
    IF \E i \in DOMAIN s : s[i] = sep
    THEN LET i == CHOOSE k \in DOMAIN s :
                      s[k] = sep /\ \A j \in 1..(k - 1) : s[j] # sep
         IN  <<SubSeq(s, 1, i - 1)>> \o split(SubSeq(s, i + 1, Len(s)), sep)
    ELSE <<s>>

Range(f) == {f[i] : i \in DOMAIN f}

Min(a, b) == IF a <= b THEN a ELSE b

digitValue(c) ==
    CASE c = "0" -> 0 [] c = "1" -> 1 [] c = "2" -> 2 [] c = "3" -> 3
      [] c = "4" -> 4 [] c = "5" -> 5 [] c = "6" -> 6 [] c = "7" -> 7
      [] c = "8" -> 8 [] c = "9" -> 9

\* the number a string of decimal digits denotes
RECURSIVE toNumber(_)
toNumber(ds) ==
    IF ds = <<>> THEN 0
    ELSE 10 * toNumber(SubSeq(ds, 1, Len(ds) - 1)) + digitValue(ds[Len(ds)])

----------------------------------------------------------------------------
(* Configuration and input data *)

\* RESULT_LIMIT = 10
RESULT_LIMIT == 10

\* longest catalog window drawn from the master catalog
MaxRows == 2

\* longest generated raw money text
MaxLen == 3

\* most industry tags selected at once
MaxInterests == 1

\* copies of the first six master rows in the large catalog
Copies == 3

Yes == <<"Y","e","s">>

Fallback == <<"c","o","n","t","a","c","t"," ","u","s"," ","f","o","r"," ","d","e","t","a","i","l","s">>

Row(industry, cash, semi, passive, home, b2b, b2c, ranking) ==
    [industry |-> industry, cash |-> cash, semi |-> semi, passive |-> passive,
     home |-> home, b2b |-> b2b, b2c |-> b2c, ranking |-> ranking]

\* catalog rows: industry, cash required, semi-absentee ownership,
\* passive franchise, home based franchise, b2b, b2c, industry_ranking
Master == <<
    Row(<<"p","e","t"," ","g","r","o","o","m","i","n","g">>,
        <<"$","4","0",",","0","0","0">>,
        <<"Y","e","s">>, <<"N","o">>, <<"N","o">>, <<"N","o">>, <<"Y","e","s">>, 3),
    Row(<<"p","e","t"," ","g","r","o","o","m","i","n","g",","," ","r","e","t","a","i","l">>,
        <<"$","6","0",",","0","0","0">>,
        <<"N","o">>, <<"N","o">>, <<"Y","e","s">>, <<"N","o">>, <<"Y","e","s">>, 1),
    Row(<<"R","e","t","a","i","l">>,
        <<"$","9","9",",","0","0","0"," ","-"," ","$","1","5","0",",","0","0","0">>,
        <<"Y","e","s">>, <<"Y","e","s">>, <<"N","o">>, <<"Y","e","s">>, <<"N","o">>, 1),
    Row(<<"p","e","t"," ","g","r","o","o","m","i","n","g">>,
        <<"$","4","5",",","0","0","0">>,
        <<"Y","e","s">>, <<"N","o">>, <<"N","o">>, <<"y","e","s">>, <<"Y","e","s">>, 3),
    Row(<<"a","u","t","o"," ","r","e","p","a","i","r">>,
        <<"$","3","0",",","0","0","0">>,
        <<"Y","e","s">>, <<"Y","e","s">>, <<"Y","e","s">>, <<"Y","e","s">>, <<"Y","e","s">>, 1),
    Row(<<"P","e","t"," ","C","a","r","e"," ",",","R","e","t","a","i","l">>,
        <<"$","1",",","5","0","0",",","0","0","0">>,
        <<"N","o">>, <<"Y","e","s">>, <<"N","o">>, <<"Y","E","S">>, NaN, 2),
    Row(<<"k","i","d","s",","," ","r","e","t","a","i","l">>,
        NaN,
        <<"Y","e","s">>, <<"N","o">>, <<"Y","e","s">>, <<"Y","e","s">>, <<"y","e","s">>, 1),
    Row(<<"r","e","t","a","i","l">>,
        <<"C","a","l","l">>,
        <<"N","o">>, <<"N","o">>, <<"N","o">>, <<"N","o">>, <<"Y","e","s">>, 2),
    Row(NaN,
        <<"$","1","0",",","0","0","0">>,
        <<"Y","e","s">>, <<"Y","e","s">>, <<"Y","e","s">>, <<"Y","e","s">>, <<"Y","e","s">>, 1),
    Row(<<"p","e","t">>,
        <<"$","2",",","5","0","0",",","0","0","0">>,
        <<"N","o">>, <<"N","o">>, <<"N","o">>, <<"Y","e","s">>, <<"Y","e","s">>, 1),
    Row(<<"K","i","d","s"," ",","," ","P","e","t">>,
        <<"1",",",",","2">>,
        <<"Y","e","s">>, <<"Y","e","s">>, <<"Y","e","s">>, NaN, <<"Y","e","s">>, 2) >>


\* the frame's index: each row carries its position in the file
WithIndex(rows) ==
    [i \in DOMAIN rows |->
        [idx |-> i, industry |-> rows[i].industry, cash |-> rows[i].cash,
         semi |-> rows[i].semi, passive |-> rows[i].passive,
         home |-> rows[i].home, b2b |-> rows[i].b2b, b2c |-> rows[i].b2c,
         ranking |-> rows[i].ranking]]

RECURSIVE Repeat(_, _)
Repeat(rows, n) == IF n = 0 THEN <<>> ELSE rows \o Repeat(rows, n - 1)

Windows ==
    UNION { {SubSeq(Master, i, j) : j \in i..Min(Len(Master), i + MaxRows - 1)} :
            i \in DOMAIN Master }

\* small catalogs: every run of at most MaxRows consecutive master rows
\* (their "cash required" column holds text, as in the dataset: .str needs it)
Catalogs ==
    {WithIndex(w) : w \in {x \in Windows : \E i \in DOMAIN x : ~isna(x[i].cash)}}

\* a catalog with more rows than RESULT_LIMIT
LargeCatalog == WithIndex(Repeat(SubSeq(Master, 1, 6), Copies))

\* a catalog read from a sheet that lacks a column has no value in it
WithColumns(rows, cols) ==
    [i \in DOMAIN rows |->
        [rows[i] EXCEPT !.b2b = IF "b2b" \in cols THEN @ ELSE NaN,
                        !.b2c = IF "b2c" \in cols THEN @ ELSE NaN]]

ColumnSets == {{"b2b", "b2c"}, {}}

\* biz_map = map_df.groupby("business_type")["industry"].apply(list).to_dict()
BizMaps ==
    { ("home and family" :> << <<"P","e","t">>, <<"k","i","d","s">> >>) @@
      ("retail" :> << <<"R","e","t","a","i","l">> >>) }

biz_options == DOMAIN biz_map

CapitalOptions == {"Please select", "Under $50k", "$50k-$99k", "$100k-$249k", "$250k+"}

TimeOptions == {"Please select", "Full-time owner-operator",
                "5-20 hrs/week (semi-absentee)", "<5 hrs/week (passive)"}

CustomerOptions == {"Please select", "Businesses (B2B)", "Consumers (B2C)",
                    "Either or Both"}

\* industry_tags = sorted({t.strip() for cell in df["industry"].dropna()
\*                         for t in str(cell).split(",")})
industry_tags ==
    UNION { {strip(tk) : tk \in Range(split(str(df[i].industry), ","))} :
            i \in {k \in DOMAIN df : ~isna(df[k].industry)} }

----------------------------------------------------------------------------
(* franchise_web_app.py: the stages of the handler *)

\* count_focus_matches(industry_cell)
count_focus_matches(industry_cell) ==
    LET inds   == {lower(strip(tk)) : tk \in Range(split(str(industry_cell), ","))}
        hit(bf) == \E m \in Range(biz_map[bf]) : \E ind \in inds :
                       contains(ind, lower(m))
    IN  Cardinality({bf \in biz_focus : hit(bf)})

\* mutant: the mask keeps rows that match no selected focus
focus_keep_any(industry_cell) == count_focus_matches(industry_cell) >= 0

\* df["industry"].apply(lambda x: count_focus_matches(x) > 0)
focus_keep(industry_cell) == count_focus_matches(industry_cell) > 0

\* df_f["match_score"] = df_f["industry"].apply(count_focus_matches)
with_match_score(r) == r @@ [match_score |-> count_focus_matches(r.industry)]

\* cap_map
cap_map ==
    ("Under $50k" :> 50000) @@ ("$50k-$99k" :> 99000) @@
    ("$100k-$249k" :> 249000) @@ ("$250k+" :> 1000000)

\* mutant: the financing flag is read the wrong way round
cap_limit_of_swapped(capital, fin) == cap_map[capital] * (IF fin THEN 1 ELSE 2)

\* cap_limit = cap_map[liquid_capital] * (2 if finance else 1)
cap_limit_of(capital, fin) == cap_map[capital] * (IF fin THEN 2 ELSE 1)

cap_limit == cap_limit_of(liquid_capital, finance)

\* .str.extract(r"(\d[\d,]*)").replace({",": ""}, regex=True).astype(float)
\* the result is [nan |-> TRUE] or [nan |-> FALSE, v |-> the number]
cash_required_low(cash) ==
    IF isna(cash) \/ ~\E i \in DOMAIN cash : isDigit(cash[i])
    THEN [nan |-> TRUE, v |-> 0]
    ELSE LET i == CHOOSE k \in DOMAIN cash :
                      isDigit(cash[k]) /\ \A j \in 1..(k - 1) : ~isDigit(cash[j])
             inRun(c) == isDigit(c) \/ c = ","
             j == CHOOSE k \in i..Len(cash) :
                      /\ \A m \in i..k : inRun(cash[m])
                      /\ (k = Len(cash) \/ ~inRun(cash[k + 1]))
             run == SubSeq(cash, i, j)
         IN  [nan |-> FALSE, v |-> toNumber(SelectSeq(run, isDigit))]

\* df_f["cash required low"] = ...
with_cash_low(r) == r @@ [cash_low |-> cash_required_low(r.cash)]

\* mutant: a row whose cost did not parse is retained
capital_keep_nan(low, limit) == low.nan \/ low.v <= limit

\* df_f["cash required low"] <= cap_limit   (NaN <= x is False)
capital_keep(low, limit) == ~low.nan /\ low.v <= limit

\* the time-commitment mask
time_keep(r) ==
    IF hands_on_time = "5-20 hrs/week (semi-absentee)" THEN r.semi = Yes
    ELSE IF hands_on_time = "<5 hrs/week (passive)" THEN r.passive = Yes
    ELSE TRUE

\* any(tag in str(x) for tag in industry_interests)
interest_keep(r) ==
    \E tag \in industry_interests : contains(str(r.industry), tag)

\* mutant: the customer-type mask without the "in df_f.columns" guards
customer_keep_unguarded(r) ==
    IF customer_type = "Businesses (B2B)" THEN lower(str(r.b2b)) = lower(Yes)
    ELSE IF customer_type = "Consumers (B2C)" THEN lower(str(r.b2c)) = lower(Yes)
    ELSE TRUE

\* the customer-type mask, with the "in df_f.columns" guards
customer_keep(r) ==
    IF customer_type = "Businesses (B2B)" /\ "b2b" \in columns
    THEN lower(str(r.b2b)) = lower(Yes)
    ELSE IF customer_type = "Consumers (B2C)" /\ "b2c" \in columns
    THEN lower(str(r.b2c)) = lower(Yes)
    ELSE TRUE

\* mutant: ties on both keys are not kept in their incoming order
sort_before_or_tie(a, b) ==
    \/ a.match_score > b.match_score
    \/ a.match_score = b.match_score /\ a.ranking <= b.ranking

\* a sorts strictly before b under ["match_score", "industry_ranking"],
\* ascending=[False, True]
sort_before(a, b) ==
    \/ a.match_score > b.match_score
    \/ a.match_score = b.match_score /\ a.ranking < b.ranking

\* stable insertion of r into an already sorted table
RECURSIVE insert_sorted(_, _)
insert_sorted(r, rows) ==
    IF rows = <<>> THEN <<r>>
    ELSE IF sort_before(r, Head(rows)) THEN <<r>> \o rows
    ELSE <<Head(rows)>> \o insert_sorted(r, Tail(rows))

\* df_f.sort_values([...]): a stable (lexsort) sort
RECURSIVE sort_values(_)
sort_values(rows) ==
    IF rows = <<>> THEN <<>>
    ELSE insert_sorted(rows[Len(rows)], sort_values(SubSeq(rows, 1, Len(rows) - 1)))

\* mutant: the emptiness check never fires
empty_never(rows) == FALSE

\* df_f.empty
empty(rows) == rows = <<>>

\* mutant: no truncation
head_all(rows, n) == rows

\* df.head(n)
head(rows, n) == SubSeq(rows, 1, Min(n, Len(rows)))

----------------------------------------------------------------------------
(* franchise_web_app.py: the handler, stage by stage *)

Stop(outcome) ==
    /\ pc' = "stopped"
    /\ status' = outcome
    /\ top_n' = <<>>

\* lines 106-113: the button, with the form's values, and the validation
Click ==
    /\ pc = "form"
    /\ app = "main"
    /\ \E bf \in SUBSET biz_options, lc \in CapitalOptions, fin \in BOOLEAN,
          hot \in TimeOptions, ct \in CustomerOptions,
          ii \in {x \in SUBSET industry_tags : Cardinality(x) <= MaxInterests} :
          /\ Cardinality(bf) <= 3
          /\ biz_focus' = bf
          /\ liquid_capital' = lc
          /\ finance' = fin
          /\ hands_on_time' = hot
          /\ industry_interests' = ii
          /\ customer_type' = ct
          /\ IF bf = {} \/ "Please select" \in {lc, hot, ct}
             THEN Stop("WARNING")
             ELSE /\ pc' = "focus"
                  /\ UNCHANGED <<status, top_n>>
    /\ stages' = <<"validate">>
    /\ UNCHANGED <<dataVars, work_setting, df_f, focus_rows, moneyVars>>

\* lines 118-132: keep the rows some selected focus matches, and score them
FocusStage ==
    /\ pc = "focus"
    /\ \E kept \in {SelectSeq(df, LAMBDA r : focus_keep(r.industry))} :
          IF empty(kept)
          THEN /\ Stop("NO_FOCUS_MATCH")
               /\ UNCHANGED <<df_f, focus_rows>>
          ELSE /\ df_f' = [i \in DOMAIN kept |-> with_match_score(kept[i])]
               /\ focus_rows' = df_f'
               /\ pc' = "capital"
               /\ UNCHANGED <<status, top_n>>
    /\ stages' = Append(stages, "focus")
    /\ UNCHANGED <<dataVars, formVars, moneyVars>>

\* lines 136-145: the capital ceiling
CapitalStage ==
    /\ pc = "capital"
    /\ \E lows \in {[i \in DOMAIN df_f |-> with_cash_low(df_f[i])]} :
          df_f' = SelectSeq(lows, LAMBDA r : capital_keep(r.cash_low, cap_limit))
    /\ pc' = "time"
    /\ stages' = Append(stages, "capital")
    /\ UNCHANGED <<dataVars, formVars, focus_rows, top_n, status, moneyVars>>

\* lines 147-150: the time-commitment flags
TimeStage ==
    /\ pc = "time"
    /\ df_f' = SelectSeq(df_f, time_keep)
    /\ pc' = "interest"
    /\ stages' = Append(stages, "time")
    /\ UNCHANGED <<dataVars, formVars, focus_rows, top_n, status, moneyVars>>

\* lines 152-155: the optional industry tags
InterestStage ==
    /\ pc = "interest"
    /\ df_f' = IF industry_interests # {} THEN SelectSeq(df_f, interest_keep)
               ELSE df_f
    /\ pc' = "customer"
    /\ stages' = Append(stages, "interest")
    /\ UNCHANGED <<dataVars, formVars, focus_rows, top_n, status, moneyVars>>

\* lines 157-160: the customer type
CustomerStage ==
    /\ pc = "customer"
    /\ df_f' = SelectSeq(df_f, customer_keep)
    /\ pc' = "sort"
    /\ stages' = Append(stages, "customer")
    /\ UNCHANGED <<dataVars, formVars, focus_rows, top_n, status, moneyVars>>

\* the handler's outcome once the strict filters left nothing (lines 166-168)
empty_outcome == "EMPTY"

\* lines 162-170: the final sort, the empty check and head(RESULT_LIMIT)
FinalSort ==
    /\ pc = "sort"
    /\ df_f' = sort_values(df_f)
    /\ IF empty(df_f')
       THEN Stop(empty_outcome)
       ELSE /\ top_n' = head(df_f', RESULT_LIMIT)
            /\ status' = "STRICT"
            /\ pc' = "done"
    /\ stages' = Append(stages, "sort")
    /\ UNCHANGED <<dataVars, formVars, focus_rows, moneyVars>>

----------------------------------------------------------------------------
(* franchise_web_app.py: money() and _format_single() *)

\* float() raising ValueError, in place of the text a call would return
ValueError == <<"ValueError">>

DigitChars == <<"0","1","2","3","4","5","6","7","8","9">>

\* the decimal digits of a natural number
RECURSIVE digits_of(_)
digits_of(n) ==
    IF n < 10 THEN <<DigitChars[n + 1]>>
    ELSE Append(digits_of(n \div 10), DigitChars[(n % 10) + 1])

\* the "," format option: a comma before every group of three digits
RECURSIVE group_thousands(_)
group_thousands(ds) ==
    IF Len(ds) <= 3 THEN ds
    ELSE group_thousands(SubSeq(ds, 1, Len(ds) - 3)) \o <<",">>
             \o SubSeq(ds, Len(ds) - 2, Len(ds))

\* float(n_str) accepts digits with at most one point and at least one digit
float_ok(n_str) ==
    /\ \E k \in DOMAIN n_str : isDigit(n_str[k])
    /\ Cardinality({k \in DOMAIN n_str : n_str[k] = "."}) <= 1

int_part(n_str) ==
    IF \E k \in DOMAIN n_str : n_str[k] = "."
    THEN SubSeq(n_str, 1, (CHOOSE k \in DOMAIN n_str : n_str[k] = ".") - 1)
    ELSE n_str

frac_part(n_str) ==
    IF \E k \in DOMAIN n_str : n_str[k] = "."
    THEN SubSeq(n_str, (CHOOSE k \in DOMAIN n_str : n_str[k] = ".") + 1, Len(n_str))
    ELSE <<>>

\* n == 0
is_zero(n_str) == \A k \in DOMAIN n_str : n_str[k] \in {"0", "."}

\* the integer "{n:.0f}" prints: nearest, a tie going to the even neighbour
round_0f(n_str) ==
    LET whole == toNumber(int_part(n_str))
        frac  == frac_part(n_str)
        rest  == \E k \in 2..Len(frac) : frac[k] # "0"
        up    == /\ frac # <<>>
                 /\ \/ digitValue(frac[1]) > 5
                    \/ digitValue(frac[1]) = 5 /\ (rest \/ whole % 2 = 1)
    IN  IF up THEN whole + 1 ELSE whole

\* _format_single(num_str)
format_single(num_str) ==
    LET n_str == SelectSeq(num_str, LAMBDA c : isDigit(c) \/ c = ".")
    IN  IF n_str = <<>> THEN Fallback
        ELSE IF ~float_ok(n_str) THEN ValueError
        ELSE IF is_zero(n_str) THEN Fallback
        ELSE <<"$">> \o group_thousands(digits_of(round_0f(n_str)))

isDash(c) == c \in {"-", "ENDASH", "EMDASH"}

\* money(val)
money(v) ==
    IF isna(v) THEN Fallback
    ELSE LET txt == strip(str(v))
         IN  IF \E k \in DOMAIN txt : isDash(txt[k])
             THEN LET k == CHOOSE d \in DOMAIN txt :
                               isDash(txt[d]) /\ \A e \in 1..(d - 1) : ~isDash(txt[e])
                      left  == rstrip(SubSeq(txt, 1, k - 1))
                      right == lstrip(SubSeq(txt, k + 1, Len(txt)))
                      l_fmt == format_single(left)
                      r_fmt == format_single(right)
                  IN  IF l_fmt = ValueError \/ r_fmt = ValueError THEN ValueError
                      ELSE IF contains(l_fmt \o r_fmt, <<"c","o","n","t","a","c","t"," ","u","s">>)
                      THEN Fallback
                      ELSE l_fmt \o <<"NNBSP", "EMDASH", "NNBSP">> \o r_fmt
             ELSE format_single(txt)

MoneyChars == {"0", "2", "5", ".", "-", " ", "$"}

MoneyExamples ==
    { NaN,
      <<"5","0","0","0","0">>,
      <<"0">>,
      <<"5","0","0","0","0","-","7","5","0","0","0">>,
      <<"$","9","9",",","0","0","0"," ","-"," ","$","1","5","0",",","0","0","0">>,
      <<"1","2","3","4","5","6","7",".","5">>,
      <<"C","a","l","l"," ","f","o","r"," ","d","e","t","a","i","l","s">>,
      <<"N",".","A",".">>,
      <<"$","4","0",",","0","0","0"," ","ENDASH"," ","$","6","0",",","0","0","0">> }

MoneyInputs ==
    MoneyExamples \cup UNION { [1..n -> MoneyChars] : n \in 1..MaxLen }

\* one call of money(val) from the presentation loop (lines 221-222)
FormatMoney ==
    /\ pc = "money"
    /\ shown' = money(val)
    /\ pc' = "shown"
    /\ UNCHANGED <<dataVars, formVars, stages, df_f, focus_rows, top_n, status, val>>

InitMoney ==
    /\ val \in MoneyInputs
    /\ shown = NaN
    /\ pc = "money"
    /\ app = "main"
    /\ columns = {}
    /\ df = <<>>
    /\ biz_map \in BizMaps
    /\ biz_focus = {}
    /\ liquid_capital = "Please select"
    /\ finance = FALSE
    /\ hands_on_time = "Please select"
    /\ work_setting = "Please select"
    /\ industry_interests = {}
    /\ customer_type = "Please select"
    /\ stages = <<>>
    /\ df_f = <<>>
    /\ focus_rows = <<>>
    /\ top_n = <<>>
    /\ status = "NONE"

NextMoney == FormatMoney

SpecMoney == InitMoney /\ [][NextMoney]_vars

----------------------------------------------------------------------------
(* franchise_web_app_debug.py: the handler, stage by stage *)

WorkOptions == {"Please select", "Mostly outdoors / in-field",
                "Office / professional", "Home-based / mobile"}

CustomerOptionsDebug == {"Please select", "Businesses (B2B)", "Consumers (B2C)",
                         "Both"}

OutdoorWords == { <<"h","o","m","e"," ","s","e","r","v","i","c","e","s">>,
                  <<"r","e","p","a","i","r">>,
                  <<"r","e","s","t","o","r","a","t","i","o","n">>,
                  <<"l","a","w","n">>,
                  <<"p","e","s","t">> }

OfficeWords == { <<"a","d","v","e","r","t","i","s","i","n","g">>,
                 <<"r","e","a","l"," ","e","s","t","a","t","e">>,
                 <<"b","u","s","i","n","e","s","s"," ","s","e","r","v","i","c","e","s">> }

\* df_f["industry"].str.contains("a|b|c", case=False, na=False)
str_contains(cell, words) ==
    ~isna(cell) /\ \E w \in words : contains(lower(cell), w)

\* the work-setting mask
work_keep(r) ==
    IF work_setting = "Mostly outdoors / in-field"
    THEN str_contains(r.industry, OutdoorWords)
    ELSE IF work_setting = "Office / professional"
    THEN str_contains(r.industry, OfficeWords)
    ELSE IF work_setting = "Home-based / mobile" THEN r.home = Yes
    ELSE TRUE

\* sort_values("industry_ranking"): one key, the default quicksort, which
\* orders rows of equal ranking in any way
sort_by_ranking(rows) ==
    {p \in [DOMAIN rows -> Range(rows)] :
        /\ \A i, j \in DOMAIN p : i # j => p[i] # p[j]
        /\ \A i, j \in DOMAIN p : i < j => p[i].ranking <= p[j].ranking}

\* .groupby("industry", sort=False).head(1)
first_of_each_industry(rows) ==
    SelectSeq([i \in DOMAIN rows |-> [row |-> rows[i], at |-> i]],
              LAMBDA e : /\ ~isna(e.row.industry)
                         /\ \A j \in 1..(e.at - 1) :
                                rows[j].industry # e.row.industry)

\* lines 53-60: the button, with the form's values, and the validation
ClickDebug ==
    /\ pc = "form"
    /\ app = "debug"
    /\ \E lc \in CapitalOptions, fin \in BOOLEAN, hot \in TimeOptions,
          ws \in WorkOptions, ct \in CustomerOptionsDebug,
          ii \in {x \in SUBSET industry_tags : Cardinality(x) <= MaxInterests} :
          /\ liquid_capital' = lc
          /\ finance' = fin
          /\ hands_on_time' = hot
          /\ work_setting' = ws
          /\ industry_interests' = ii
          /\ customer_type' = ct
          /\ IF "Please select" \in {lc, hot, ws, ct} \/ ii = {}
             THEN Stop("WARNING")
             ELSE /\ pc' = "capital_d"
                  /\ UNCHANGED <<status, top_n>>
    /\ stages' = <<"validate">>
    /\ UNCHANGED <<dataVars, biz_focus, df_f, focus_rows, moneyVars>>

\* lines 63-70: the capital ceiling, on a copy of the whole catalog
CapitalDebug ==
    /\ pc = "capital_d"
    /\ \E lows \in {[i \in DOMAIN df |-> with_cash_low(df[i])]} :
          df_f' = SelectSeq(lows, LAMBDA r : capital_keep(r.cash_low, cap_limit))
    /\ pc' = "time_d"
    /\ stages' = Append(stages, "capital")
    /\ UNCHANGED <<dataVars, formVars, focus_rows, top_n, status, moneyVars>>

\* lines 72-75
TimeDebug ==
    /\ pc = "time_d"
    /\ df_f' = SelectSeq(df_f, time_keep)
    /\ pc' = "work_d"
    /\ stages' = Append(stages, "time")
    /\ UNCHANGED <<dataVars, formVars, focus_rows, top_n, status, moneyVars>>

\* lines 77-82
WorkDebug ==
    /\ pc = "work_d"
    /\ df_f' = SelectSeq(df_f, work_keep)
    /\ pc' = "interest_d"
    /\ stages' = Append(stages, "work")
    /\ UNCHANGED <<dataVars, formVars, focus_rows, top_n, status, moneyVars>>

\* line 84
InterestDebug ==
    /\ pc = "interest_d"
    /\ df_f' = SelectSeq(df_f, interest_keep)
    /\ pc' = "customer_d"
    /\ stages' = Append(stages, "interest")
    /\ UNCHANGED <<dataVars, formVars, focus_rows, top_n, status, moneyVars>>

\* lines 86-89: df_f["b2b"] == "Yes"; a missing column is a KeyError
CustomerDebug ==
    /\ pc = "customer_d"
    /\ IF customer_type = "Businesses (B2B)"
       THEN IF "b2b" \in columns
            THEN /\ df_f' = SelectSeq(df_f, LAMBDA r : r.b2b = Yes)
                 /\ pc' = "sort_d"
                 /\ UNCHANGED <<status, top_n>>
            ELSE /\ Stop("KeyError")
                 /\ UNCHANGED df_f
       ELSE IF customer_type = "Consumers (B2C)"
       THEN IF "b2c" \in columns
            THEN /\ df_f' = SelectSeq(df_f, LAMBDA r : r.b2c = Yes)
                 /\ pc' = "sort_d"
                 /\ UNCHANGED <<status, top_n>>
            ELSE /\ Stop("KeyError")
                 /\ UNCHANGED df_f
       ELSE /\ pc' = "sort_d"
            /\ UNCHANGED <<df_f, status, top_n>>
    /\ stages' = Append(stages, "customer")
    /\ UNCHANGED <<dataVars, formVars, focus_rows, moneyVars>>

\* line 91
SortDebug ==
    /\ pc = "sort_d"
    /\ df_f' \in sort_by_ranking(df_f)
    /\ pc' = "fallback_d"
    /\ stages' = Append(stages, "sort")
    /\ UNCHANGED <<dataVars, formVars, focus_rows, top_n, status, moneyVars>>

\* lines 93-106: the fallback block, head(RESULT_LIMIT) and the last check
FallbackDebug ==
    /\ pc = "fallback_d"
    /\ IF empty(df_f)
       THEN /\ \E sorted \in sort_by_ranking(SelectSeq(df, interest_keep)) :
                 df_f' = [i \in DOMAIN first_of_each_industry(sorted) |->
                             first_of_each_industry(sorted)[i].row]
            /\ stages' = Append(stages, "fallback")
       ELSE /\ UNCHANGED df_f
            /\ stages' = Append(stages, "head")
    /\ IF empty(head(df_f', RESULT_LIMIT))
       THEN Stop("EMPTY")
       ELSE /\ top_n' = head(df_f', RESULT_LIMIT)
            /\ status' = IF empty(df_f) THEN "RELAXED_FALLBACK" ELSE "STRICT"
            /\ pc' = "done"
    /\ UNCHANGED <<dataVars, formVars, focus_rows, moneyVars>>

----------------------------------------------------------------------------

Apps == {"main", "debug"}

Init ==
    /\ app \in Apps
    /\ columns \in ColumnSets
    /\ \E c \in Catalogs \cup (IF app = "main" THEN {LargeCatalog} ELSE {}) :
          df = WithColumns(c, columns)
    /\ biz_map \in BizMaps
    /\ biz_focus = {}
    /\ liquid_capital = "Please select"
    /\ finance = FALSE
    /\ hands_on_time = "Please select"
    /\ work_setting = "Please select"
    /\ industry_interests = {}
    /\ customer_type = "Please select"
    /\ pc = "form"
    /\ stages = <<>>
    /\ df_f = <<>>
    /\ focus_rows = <<>>
    /\ top_n = <<>>
    /\ status = "NONE"
    /\ val = NaN
    /\ shown = NaN

Next ==
    \/ Click
    \/ FocusStage
    \/ CapitalStage
    \/ TimeStage
    \/ InterestStage
    \/ CustomerStage
    \/ FinalSort
    \/ ClickDebug
    \/ CapitalDebug
    \/ TimeDebug
    \/ WorkDebug
    \/ InterestDebug
    \/ CustomerDebug
    \/ SortDebug
    \/ FallbackDebug

Spec == Init /\ [][Next]_vars

----------------------------------------------------------------------------
(* Properties of the matching handler *)

IsMain == app = "main"

Brackets == <<"Under $50k", "$50k-$99k", "$100k-$249k", "$250k+">>

BracketRank(b) == CHOOSE i \in DOMAIN Brackets : Brackets[i] = b

\* the table of ceilings as the specification states it
TableCeiling(b) ==
    CASE b = "Under $50k" -> 50000
      [] b = "$50k-$99k" -> 99000
      [] b = "$100k-$249k" -> 249000
      [] b = "$250k+" -> 1000000

HasDigit(cash) == ~isna(cash) /\ \E k \in DOMAIN cash : isDigit(cash[k])

StrictEmptied ==
    /\ IsMain
    /\ pc \in {"done", "stopped"}
    /\ focus_rows # <<>>
    /\ stages[Len(stages)] = "sort"
    /\ df_f = <<>>

\* C1: when the focus stage left rows and the strict filters left none, the
\* handler ends RELAXED_FALLBACK and returns the focus-stage survivors sorted
\* by (match_score descending, industry_ranking ascending), first 10.
Claim_C1 ==
    StrictEmptied =>
        /\ status = "RELAXED_FALLBACK"
        /\ top_n = head(sort_values(focus_rows), RESULT_LIMIT)

\* C2: the rows returned are never more than RESULT_LIMIT, in either script
\* and on either path.
Thm_C2 == Len(top_n) <= RESULT_LIMIT

Wit_C2 ==
    /\ pc = "done"
    /\ Len(df_f) > RESULT_LIMIT
    /\ Len(top_n) = RESULT_LIMIT

\* C3: every returned row has match_score >= 1, match_score being the number
\* of selected focus labels with a mapped industry that is a case-insensitive
\* substring of one of the row's trimmed comma-separated industry tokens.
Thm_C3 ==
    IsMain /\ pc = "done" =>
        \A i \in DOMAIN top_n :
            /\ top_n[i].match_score >= 1
            /\ top_n[i].match_score =
                   Cardinality({bf \in biz_focus :
                       \E m \in Range(biz_map[bf]) :
                       \E tk \in Range(split(str(top_n[i].industry), ",")) :
                           contains(lower(strip(tk)), lower(m))})

Wit_C3 ==
    /\ IsMain
    /\ pc = "done"
    /\ \E i \in DOMAIN top_n : top_n[i].match_score = 2
    /\ \E i \in DOMAIN top_n : top_n[i].match_score = 1
    /\ \E i \in DOMAIN df : \A j \in DOMAIN focus_rows : focus_rows[j].idx # df[i].idx

\* C4: the returned rows are ordered by match_score descending, then
\* industry_ranking ascending, and rows equal on both keys keep their
\* catalog order.
Thm_C4 ==
    IsMain /\ pc = "done" =>
        \A i, j \in DOMAIN top_n :
            i < j =>
                \/ top_n[i].match_score > top_n[j].match_score
                \/ /\ top_n[i].match_score = top_n[j].match_score
                   /\ top_n[i].ranking < top_n[j].ranking
                \/ /\ top_n[i].match_score = top_n[j].match_score
                   /\ top_n[i].ranking = top_n[j].ranking
                   /\ top_n[i].idx < top_n[j].idx

Wit_C4 ==
    /\ IsMain
    /\ pc = "done"
    /\ \E i, j \in DOMAIN top_n :
          i < j /\ top_n[i].match_score > top_n[j].match_score
                /\ top_n[i].ranking > top_n[j].ranking
    /\ \E i, j \in DOMAIN top_n :
          i < j /\ top_n[i].match_score = top_n[j].match_score
                /\ top_n[i].ranking < top_n[j].ranking
                /\ top_n[i].idx > top_n[j].idx
    /\ \E i, j \in DOMAIN top_n :
          i < j /\ top_n[i].match_score = top_n[j].match_score
                /\ top_n[i].ranking = top_n[j].ranking

NoFocusMatch == \A i \in DOMAIN df : count_focus_matches(df[i].industry) = 0

\* C5: when no catalog row matches a selected focus, the handler stops at the
\* focus stage with NO_FOCUS_MATCH and no rows, and no later stage runs; and
\* that outcome is reported in no other case.
Thm_C5 ==
    IsMain /\ "focus" \in Range(stages) =>
        /\ NoFocusMatch <=> status = "NO_FOCUS_MATCH"
        /\ NoFocusMatch =>
              /\ pc = "stopped"
              /\ top_n = <<>>
              /\ stages = <<"validate", "focus">>
              /\ df_f = <<>>

Wit_C5 ==
    /\ IsMain
    /\ status = "NO_FOCUS_MATCH"
    /\ df # <<>>
    /\ biz_focus # {}

Wider(c1, f1, c2, f2) ==
    \/ BracketRank(c2) >= BracketRank(c1) /\ f2 = f1
    \/ c2 = c1 /\ ~f1 /\ f2

\* C6: a row that passed the capital filter passes it under every wider
\* bracket, and under the same bracket with financing enabled.
Thm_C6 ==
    IsMain /\ pc = "time" =>
        \A c2 \in Range(Brackets), f2 \in BOOLEAN :
            Wider(liquid_capital, finance, c2, f2) =>
                \A i \in DOMAIN df_f :
                    capital_keep(df_f[i].cash_low, cap_limit_of(c2, f2))

Wit_C6 ==
    /\ IsMain
    /\ pc = "time"
    /\ df_f # <<>>
    /\ ~finance
    /\ \E i \in DOMAIN focus_rows :
          /\ ~capital_keep(cash_required_low(focus_rows[i].cash), cap_limit)
          /\ capital_keep(cash_required_low(focus_rows[i].cash),
                          cap_limit_of(liquid_capital, TRUE))

Claim_C9 ==
    IsMain /\ pc = "time" /\ liquid_capital = "$250k+" =>
        \A i \in DOMAIN focus_rows :
            HasDigit(focus_rows[i].cash) =>
                \E j \in DOMAIN df_f : df_f[j].idx = focus_rows[i].idx

CustomerSkipped ==
    \/ customer_type = "Either or Both"
    \/ customer_type = "Businesses (B2B)" /\ "b2b" \notin columns
    \/ customer_type = "Consumers (B2C)" /\ "b2c" \notin columns

FlagIsYes(flag) == ~isna(flag) /\ lower(flag) = <<"y","e","s">>

----------------------------------------------------------------------------
(* Properties of money() *)

OnlyDigitsAndDots(text) == SelectSeq(text, LAMBDA c : isDigit(c) \/ c = ".")

\* the single-value rule falls back: no digit is left, or the value is zero
SingleFallsBack(text) ==
    \/ ~\E k \in DOMAIN text : isDigit(text[k])
    \/ \A k \in DOMAIN OnlyDigitsAndDots(text) :
           OnlyDigitsAndDots(text)[k] \in {"0", "."}

FirstDash(text) ==
    CHOOSE d \in DOMAIN text :
        isDash(text[d]) /\ \A e \in 1..(d - 1) : ~isDash(text[e])

\* C8: money() returns the fallback text for an absent value, for a value
\* with no digit left after stripping, and for zero; a range falls back when
\* either side does and is "<low> - <high>" otherwise; and the four examples.
Claim_C8 ==
    pc = "shown" =>
        /\ isna(val) => shown = Fallback
        /\ ~isna(val) /\ ~(\E k \in DOMAIN val : isDash(val[k]))
                /\ SingleFallsBack(val) => shown = Fallback
        /\ ~isna(val) /\ (\E k \in DOMAIN val : isDash(val[k])) =>
              LET low  == SubSeq(val, 1, FirstDash(val) - 1)
                  high == SubSeq(val, FirstDash(val) + 1, Len(val))
              IN  IF SingleFallsBack(low) \/ SingleFallsBack(high)
                  THEN shown = Fallback
                  ELSE shown = format_single(low)
                                   \o <<"NNBSP", "EMDASH", "NNBSP">>
                                   \o format_single(high)
        /\ val = <<"5","0","0","0","0">> => shown = <<"$","5","0",",","0","0","0">>
        /\ val = <<"0">> => shown = Fallback
        /\ val = <<"5","0","0","0","0","-","7","5","0","0","0">> =>
              shown = <<"$","5","0",",","0","0","0","NNBSP","EMDASH","NNBSP",
                        "$","7","5",",","0","0","0">>

\* the same statement for the raw texts float() can read
MoneyWellFormed ==
    pc = "shown" /\ shown # ValueError => Claim_C8

====
